---- MODULE Spec2Model ----
(***************************************************************************)
(* The session orchestrator of the voice assistant server.                 *)
(*                                                                         *)
(*   src/src/server/ws/session-handler.ts   handleConnection, handleMessage,*)
(*                                          resetVadTimeout, finishRecording,*)
(*                                          cleanupSession, send            *)
(*   src/unnamed/part_000                   DeepgramStream (the adapter)    *)
(*   src/src/server/index.ts                ipConnections, wss.on(connection)*)
(*                                                                         *)
(* Spec follows one connection (one Session object), RegistrySpec the      *)
(* connection registry, TranscriptSpec one adapter, IsolationSpec the      *)
(* sessions of several connections, SendSpec one adapter and the audio     *)
(* chunks passed to it.  Node runs every                                   *)
(* callback to completion, and the continuation of an `await` whose        *)
(* promise is already resolved (or is resolved by the running callback)    *)
(* runs as a microtask before the next event is taken.  An action is       *)
(* therefore one event (a client message, a timer firing, a provider       *)
(* event, the completion of a provider call) together with all the code    *)
(* that runs up to the next await of a pending promise.                    *)
(***************************************************************************)
EXTENDS Integers, Sequences, FiniteSets, Bags, TLC

\* ------------------------------------------------------------------ bounds
\* adapters that exist at once (a closed, unreferenced adapter is reclaimed)
MaxStreams == 2
\* finishRecording runs suspended at an await at once
MaxRuns == 2
\* pending duration-cap timers that no handle refers to any more
MaxStrayTimers == 1
\* length of an adapter's accumulated transcript, in characters
MaxTextLen == 1
\* Transcript events the provider sends the adapter that is followed on its own
MaxReports == 4
\* connection attempts the server sees
MaxAttempts == 5
\* connections whose sessions are followed side by side
MaxPeers == 2
\* audio chunks passed to the send() of the adapter that is followed on its own
MaxChunks == 6

StreamIds == 1..MaxStreams
PeerIds == 1..MaxPeers

\* A transcript is a sequence of characters; provider segments are non-empty
\* (the Transcript handler drops an empty one).
Segments == {<<"a">>, <<" ">>}

\* What an Error's message contains of the substrings finishRecording's catch
\* block looks for; {} is a message with none of them (or a non-Error throw).
ErrorTexts == {{}, {"OpenAI"}, {"TTS"}}

VARIABLES
    wsState,            \* ws.readyState: "open", "closing" (between the
                        \* 'error' and the 'close' event), "closed"
    inSessions,         \* sessions.has(sessionId)
    sttStream,          \* session.sttStream: an adapter, or 0 for null
    isCancelled,        \* session.isCancelled
    vadTimeout,         \* session.vadTimeout: "null", or a handle to a
                        \* "pending" or to a "fired" timer
    maxDurationTimeout, \* session.maxDurationTimeout, likewise
    capGen,             \* which duration-cap timer maxDurationTimeout refers
                        \* to while it is pending: setTimeout on a pending
                        \* handle gives the other one; 0 when not pending
    strayCaps,          \* pending duration-cap timers whose handle the session
                        \* has overwritten
    streams,            \* the DeepgramStream objects
    runs,               \* the finishRecording calls suspended at an await
    sent,               \* the messages the last step sent to the client
    vadOvertaken,       \* history: an audio chunk or a transcript update was
                        \* handled after the pending silence timer was armed
    cancelsInRow,       \* history: how many of the last client messages
                        \* handled were cancel (counted up to 2)
    ipConnections,      \* index.ts: the Map from client identity to its count
    sockets,            \* index.ts: the connection attempts the server has seen
    adapter,            \* one DeepgramStream on its own: its fullTranscript,
                        \* the final segments reported to it and the last
                        \* onPartial call it made
    peers,              \* the Session objects of the connections that are
                        \* followed side by side
    peerSent,           \* the messages the last step sent on each of their
                        \* sockets
    sessions,           \* session-handler.ts: the keys of the Map `sessions`
    dgStream            \* one DeepgramStream and its provider connection: the
                        \* chunks passed to send() and those handed on

vars == <<wsState, inSessions, sttStream, isCancelled, vadTimeout,
          maxDurationTimeout, capGen, strayCaps, streams, runs, sent,
          vadOvertaken, cancelsInRow, ipConnections, sockets, adapter,
          peers, peerSent, sessions, dgStream>>

\* One session is followed through its events (Spec), the connection
\* registry through connection attempts and closes (RegistrySpec), one
\* adapter through the segments the provider reports (TranscriptSpec), and
\* the sessions of several connections side by side (IsolationSpec); each
\* leaves the variables of the others as they are.
sessionVars == <<wsState, inSessions, sttStream, isCancelled, vadTimeout,
                 maxDurationTimeout, capGen, strayCaps, streams, runs, sent,
                 vadOvertaken, cancelsInRow>>
registryVars == <<ipConnections, sockets>>
adapterVars == <<adapter>>
peerVars == <<peers, peerSent, sessions>>
sendVars == <<dgStream>>

\* ---------------------------------------------------------------- helpers
Min(S) == CHOOSE x \in S : \A y \in S : x <= y

\* String.prototype.trim() leaves the empty string
IsBlank(text) == \A i \in 1..Len(text) : text[i] = " "

Status(s) == [type |-> "status", arg |-> s, text |-> <<>>]
Error(code) == [type |-> "error", arg |-> code, text |-> <<>>]
PartialTranscript(text, isFinal) ==
    [type |-> "partial_transcript",
     arg |-> IF isFinal THEN "final" ELSE "interim", text |-> text]
FinalTranscript(text) == [type |-> "final_transcript", arg |-> "", text |-> text]
LLMResponseMsg == [type |-> "llm_response", arg |-> "", text |-> <<>>]
TTSAudio == [type |-> "tts_audio", arg |-> "", text |-> <<>>]

\* a send that does not look at ws.readyState
SendUnchecked(msgs) == msgs

\* send: the messages go out only on an open socket
Send(msgs) == IF wsState = "open" THEN msgs ELSE <<>>

\* ----------------------------------------------------------------- timers
\* clearTimeout(h) followed by h = null, or by h = setTimeout(...): the timer
\* h refers to, if pending, is gone.  Overwriting a handle without
\* clearTimeout leaves a pending timer behind.
Strays(h) == IF h = "pending" THEN 1 ELSE 0

\* ------------------------------------------------- DeepgramStream (adapter)
\* sock is the provider connection the adapter wraps: "free" (no adapter in
\* this slot), "connecting", "open", "closed".  conn is `this.connection`
\* being non-null, resolveFinish is `this.resolveFinish` being non-null.
\* fallbacks counts the pending fallback timers of finish().
FreeStream ==
    [sock |-> "free", conn |-> FALSE, isOpen |-> FALSE, fullTranscript |-> <<>>,
     resolveFinish |-> FALSE, fallbacks |-> 0]

\* new DeepgramStream(...): initConnection creates the live connection
NewStream ==
    [sock |-> "connecting", conn |-> TRUE, isOpen |-> FALSE,
     fullTranscript |-> <<>>, resolveFinish |-> FALSE, fallbacks |-> 0]

\* an accumulation that appends without the separator
AccumulateNoSeparator(full, seg, isFinal) ==
    IF isFinal THEN full \o seg ELSE full

\* the Transcript handler's accumulation
Accumulate(full, seg, isFinal) ==
    IF isFinal
    THEN full \o (IF full # <<>> THEN <<" ">> ELSE <<>>) \o seg
    ELSE full

\* a callback text that is the accumulated transcript for every segment
CallbackTextAccumulatedOnly(full, seg, isFinal) ==
    Accumulate(full, seg, isFinal)

\* the text the Transcript handler passes to onPartial
CallbackText(full, seg, isFinal) ==
    IF isFinal THEN Accumulate(full, seg, isFinal) ELSE full \o <<" ">> \o seg

\* DeepgramStream.close
StreamClose(st) == [st EXCEPT !.conn = FALSE, !.isOpen = FALSE]

\* ----------------------------------------------------- finishRecording runs
\* The finishRecording calls suspended at an await, a bag of records.
\* pc: "finish" (awaiting sttStream.finish()), "llm" (awaiting
\* generateLLMResponse), "tts" (awaiting generateTTS).  While a run awaits
\* finish(): stream is its local sttStream, holds says that the adapter's
\* resolveFinish is the resolve function of this run's promise, and cause is
\* what called finishRecording ("stop", "vad" or "cap").
FinishRun(s, cause) ==
    [pc |-> "finish", stream |-> s, cause |-> cause, holds |-> TRUE]
LaterRun(pc) == [pc |-> pc, stream |-> 0, cause |-> "", holds |-> FALSE]

One(x) == SetToBag({x})

\* the run whose promise adapter s would resolve
Holder(rs, s) == CHOOSE x \in BagToSet(rs) : x.stream = s /\ x.holds

\* finish() assigns this.resolveFinish: the resolve function it held before
\* is lost
Unhold(rs, s) ==
    IF \E x \in BagToSet(rs) : x.stream = s /\ x.holds
    THEN (rs (-) One(Holder(rs, s))) (+) One([Holder(rs, s) EXCEPT !.holds = FALSE])
    ELSE rs

FreeStreamIds == {s \in StreamIds : streams[s].sock = "free"}

\* Object lifetime.  An adapter the session does not refer to gets no further
\* finish() call: once its resolveFinish is null its pending fallback timers
\* do nothing, and they are dropped.  Once no suspended run refers to it
\* either and its provider connection has closed, no handler of it runs
\* again and its slot is reclaimed.
Reap(strs, cur, rs) ==
    [s \in StreamIds |->
        IF cur = s
        THEN strs[s]
        ELSE IF strs[s].sock = "closed" /\ \A x \in BagToSet(rs) : x.stream # s
        THEN FreeStream
        ELSE IF ~strs[s].resolveFinish
        THEN [strs[s] EXCEPT !.fallbacks = 0]
        ELSE strs[s]]

\* the error code finishRecording's catch block gives an error message
ErrorCode(text) ==
    IF "STT" \in text \/ "Deepgram" \in text THEN "STT_ERROR"
    ELSE IF "LLM" \in text \/ "OpenAI" \in text THEN "LLM_ERROR"
    ELSE IF "TTS" \in text THEN "TTS_ERROR"
    ELSE "CONNECTION_ERROR"

\* finishRecording's catch block
CatchMessages(text) == <<Error(ErrorCode(text)), Status("idle")>>

\* finishRecording after `await sttStream.finish()` without the
\* `!finalText.trim()` block: every transcript goes on to the response stage
AfterFinishAnyText(strs, rs, s, text, pre) ==
    LET closed == [strs EXCEPT ![s] = StreamClose(@)]
        rs2 == rs (+) One(LaterRun("llm"))
    IN  /\ sttStream' = 0
        /\ runs' = rs2
        /\ streams' = Reap(closed, 0, rs2)
        /\ sent' = Send(pre \o <<FinalTranscript(text), Status("processing_llm")>>)

\* finishRecording from the resolution of `await sttStream.finish()` with
\* `text` to the next await: the run closes its adapter s, clears the
\* session's handle and either reports an empty transcript or goes on to the
\* response stage.  strs is the adapters as the resolving event left them, rs
\* the other suspended runs; pre is what the caller has sent before.
AfterFinish(strs, rs, s, text, pre) ==
    LET closed == [strs EXCEPT ![s] = StreamClose(@)]
        rs2 == IF IsBlank(text) THEN rs ELSE rs (+) One(LaterRun("llm"))
    IN  /\ sttStream' = 0
        /\ runs' = rs2
        /\ streams' = Reap(closed, 0, rs2)
        /\ sent' = Send(pre \o
                        IF IsBlank(text)
                        THEN <<Error("INVALID_INPUT"), Status("idle")>>
                        ELSE <<FinalTranscript(text), Status("processing_llm")>>)

\* finishRecording up to its first await of a pending promise; pre is what
\* the caller has sent before
FinishRecording(pre, cause) ==
    /\ vadTimeout' = "null"
    /\ maxDurationTimeout' = "null"
    /\ capGen' = 0
    /\ vadOvertaken' = FALSE
    /\ UNCHANGED <<wsState, inSessions, isCancelled>>
    /\ IF sttStream = 0
       THEN /\ sent' = Send(pre \o <<Status("idle")>>)
            /\ UNCHANGED <<sttStream, streams, runs>>
       ELSE /\ BagCardinality(runs) < MaxRuns
            /\ LET s == sttStream
                   full == streams[s].fullTranscript
               IN  IF full # <<>>
                   THEN \* finish() resolves at once
                        AfterFinish(streams, runs, s, full,
                                    pre \o <<Status("processing_stt")>>)
                   ELSE /\ streams' = [streams EXCEPT
                                          ![s].resolveFinish = TRUE,
                                          ![s].fallbacks = @ + 1]
                        /\ runs' = Unhold(runs, s) (+) One(FinishRun(s, cause))
                        /\ sent' = Send(pre \o <<Status("processing_stt")>>)
                        /\ UNCHANGED sttStream

\* resetVadTimeout: the pending timer is cleared and a new one is armed
ResetVadTimeout ==
    /\ vadTimeout' = "pending"
    /\ vadOvertaken' = FALSE

\* cleanupSession without its second block: the duration-cap timer is neither
\* cleared nor forgotten
CleanupSessionKeepsCapTimer ==
    /\ vadTimeout' = "null"
    /\ UNCHANGED <<maxDurationTimeout, capGen>>
    /\ vadOvertaken' = FALSE
    /\ streams' = IF sttStream # 0
                  THEN Reap([streams EXCEPT ![sttStream] = StreamClose(@)], 0, runs)
                  ELSE streams
    /\ sttStream' = 0
    /\ isCancelled' = TRUE
    /\ UNCHANGED strayCaps

\* cleanupSession
CleanupSession ==
    /\ vadTimeout' = "null"
    /\ maxDurationTimeout' = "null"
    /\ capGen' = 0
    /\ vadOvertaken' = FALSE
    /\ streams' = IF sttStream # 0
                  THEN Reap([streams EXCEPT ![sttStream] = StreamClose(@)], 0, runs)
                  ELSE streams
    /\ sttStream' = 0
    /\ isCancelled' = TRUE
    /\ UNCHANGED strayCaps

\* ----------------------------------------------- sessions side by side
\* A connection that has not come yet.  ws is "none", "open", "closing"
\* (after an 'error' event) or "closed"; sttStream, vadTimeout and
\* maxDurationTimeout say whether the handle is set (for a timer: to a pending
\* timer); pc is where the session's finishRecording run is suspended:
\* "none", "finish", "llm" or "tts".
NoPeer ==
    [ip |-> "", ws |-> "none", sttStream |-> FALSE, isCancelled |-> FALSE,
     vadTimeout |-> FALSE, maxDurationTimeout |-> FALSE, pc |-> "none"]

\* handleConnection: the new Session object
NewPeer(ip) == [NoPeer EXCEPT !.ip = ip, !.ws = "open"]

\* ------------------------------------------------------------------- Init
\* handleConnection: the session is created, registered, and told "idle"
Init ==
    /\ wsState = "open"
    /\ inSessions = TRUE
    /\ sttStream = 0
    /\ isCancelled = FALSE
    /\ vadTimeout = "null"
    /\ maxDurationTimeout = "null"
    /\ capGen = 0
    /\ strayCaps = 0
    /\ streams = [s \in StreamIds |-> FreeStream]
    /\ runs = EmptyBag
    /\ sent = <<Status("idle")>>
    /\ vadOvertaken = FALSE
    /\ cancelsInRow = 0
    /\ ipConnections = [ip \in {} |-> 0]
    /\ sockets = <<>>
    /\ adapter = [fullTranscript |-> <<>>, reported |-> <<>>, onPartial |-> <<>>]
    /\ peers = [i \in PeerIds |-> NoPeer]
    /\ peerSent = [i \in PeerIds |-> <<>>]
    /\ sessions = {}
    /\ dgStream = [sock |-> "connecting", connection |-> TRUE, isOpen |-> FALSE,
                   passed |-> 0, delivered |-> 0]

\* --------------------------------------------------------- client messages
\* ws.on('message'): a message event is taken only on an open socket

\* case 'audio_chunk' with the setTimeout of the duration cap moved out of
\* the `if (!session.sttStream)` block: every chunk clears and arms the timer
AudioChunkRearmsCap ==
    /\ wsState = "open"
    /\ cancelsInRow' = 0
    /\ UNCHANGED <<wsState, inSessions, isCancelled, runs>>
    /\ IF isCancelled
       THEN /\ sent' = <<>>
            /\ UNCHANGED <<sttStream, vadTimeout, maxDurationTimeout, capGen,
                           strayCaps, streams, vadOvertaken>>
       ELSE /\ maxDurationTimeout' = "pending"
            /\ capGen' = IF maxDurationTimeout = "pending" THEN 1 - capGen ELSE 0
            /\ ResetVadTimeout
            /\ UNCHANGED strayCaps
            /\ IF sttStream = 0
               THEN /\ FreeStreamIds # {}
                    /\ sttStream' = Min(FreeStreamIds)
                    /\ streams' = [streams EXCEPT ![Min(FreeStreamIds)] = NewStream]
                    /\ sent' = Send(<<Status("listening")>>)
               ELSE /\ sent' = <<>>
                    /\ UNCHANGED <<sttStream, streams>>
    /\ UNCHANGED <<registryVars, adapterVars, peerVars, sendVars>>

\* handleMessage, case 'audio_chunk'
AudioChunk ==
    /\ wsState = "open"
    /\ cancelsInRow' = 0
    /\ UNCHANGED <<wsState, inSessions, isCancelled, runs>>
    /\ IF isCancelled
       THEN /\ sent' = <<>>
            /\ UNCHANGED <<sttStream, vadTimeout, maxDurationTimeout, capGen,
                           strayCaps, streams, vadOvertaken>>
       ELSE IF sttStream = 0
       THEN \* the first chunk: "listening", a new adapter, the duration cap
            /\ FreeStreamIds # {}
            /\ strayCaps + Strays(maxDurationTimeout) <= MaxStrayTimers
            /\ sttStream' = Min(FreeStreamIds)
            /\ streams' = [streams EXCEPT ![Min(FreeStreamIds)] = NewStream]
            /\ strayCaps' = strayCaps + Strays(maxDurationTimeout)
            /\ maxDurationTimeout' = "pending"
            /\ capGen' = IF maxDurationTimeout = "pending" THEN 1 - capGen ELSE 0
            /\ sent' = Send(<<Status("listening")>>)
            /\ ResetVadTimeout
       ELSE /\ ResetVadTimeout
            /\ sent' = <<>>
            /\ UNCHANGED <<sttStream, streams, maxDurationTimeout, capGen,
                           strayCaps>>
    /\ UNCHANGED <<registryVars, adapterVars, peerVars, sendVars>>

\* handleMessage, case 'stop_recording'
StopRecording ==
    /\ wsState = "open"
    /\ cancelsInRow' = 0
    /\ FinishRecording(<<>>, "stop")
    /\ UNCHANGED strayCaps
    /\ UNCHANGED <<registryVars, adapterVars, peerVars, sendVars>>

\* handleMessage, case 'cancel'
Cancel ==
    /\ wsState = "open"
    /\ cancelsInRow' = IF cancelsInRow < 2 THEN cancelsInRow + 1 ELSE 2
    /\ CleanupSession
    /\ sent' = Send(<<Status("idle")>>)
    /\ UNCHANGED <<wsState, inSessions, runs>>
    /\ UNCHANGED <<registryVars, adapterVars, peerVars, sendVars>>

\* a catch block of ws.on('message') that also tears the session down
MalformedTearsDown ==
    /\ wsState = "open"
    /\ cancelsInRow' = 0
    /\ sent' = Send(<<Error("INVALID_INPUT")>>)
    /\ CleanupSession
    /\ UNCHANGED <<wsState, inSessions, runs>>
    /\ UNCHANGED <<registryVars, adapterVars, peerVars, sendVars>>

\* ws.on('message') with a payload JSON.parse rejects
Malformed ==
    /\ wsState = "open"
    /\ cancelsInRow' = 0
    /\ sent' = Send(<<Error("INVALID_INPUT")>>)
    /\ UNCHANGED <<wsState, inSessions, sttStream, isCancelled, vadTimeout,
                   maxDurationTimeout, capGen, strayCaps, streams, runs,
                   vadOvertaken>>
    /\ UNCHANGED <<registryVars, adapterVars, peerVars, sendVars>>

\* ------------------------------------------------------------- the socket
\* ws.on('close')
WsClose ==
    /\ wsState # "closed"
    /\ wsState' = "closed"
    /\ CleanupSession
    /\ inSessions' = FALSE
    /\ sent' = <<>>
    /\ UNCHANGED <<runs, cancelsInRow>>
    /\ UNCHANGED <<registryVars, adapterVars, peerVars, sendVars>>

\* an 'error' handler that only logs
WsErrorLogsOnly ==
    /\ wsState # "closed"
    /\ wsState' = "closing"
    /\ sent' = <<>>
    /\ UNCHANGED <<inSessions, sttStream, isCancelled, vadTimeout,
                   maxDurationTimeout, capGen, strayCaps, streams, runs,
                   vadOvertaken, cancelsInRow>>
    /\ UNCHANGED <<registryVars, adapterVars, peerVars, sendVars>>

\* ws.on('error'): the socket is on its way to 'close'
WsError ==
    /\ wsState # "closed"
    /\ wsState' = "closing"
    /\ CleanupSession
    /\ inSessions' = FALSE
    /\ sent' = <<>>
    /\ UNCHANGED <<runs, cancelsInRow>>
    /\ UNCHANGED <<registryVars, adapterVars, peerVars, sendVars>>

\* ------------------------------------------------------------------ timers
\* the callback of resetVadTimeout's timer
FireVad ==
    /\ vadTimeout = "pending"
    /\ UNCHANGED <<cancelsInRow, strayCaps>>
    /\ IF ~isCancelled /\ sttStream # 0
       THEN FinishRecording(<<>>, "vad")
       ELSE /\ vadTimeout' = "fired"
            /\ vadOvertaken' = FALSE
            /\ sent' = <<>>
            /\ UNCHANGED <<wsState, inSessions, sttStream, isCancelled,
                           maxDurationTimeout, capGen, streams, runs>>
    /\ UNCHANGED <<registryVars, adapterVars, peerVars, sendVars>>

\* a duration-cap callback that finalizes without the notice
MaxDurationCallbackSilent(h) ==
    IF ~isCancelled
    THEN FinishRecording(<<>>, "cap")
    ELSE /\ sent' = <<>>
         /\ maxDurationTimeout' = h
         /\ capGen' = IF h = "pending" THEN capGen ELSE 0
         /\ UNCHANGED <<wsState, inSessions, sttStream, isCancelled, vadTimeout,
                        streams, runs, vadOvertaken>>

\* the callback of a duration-cap timer; h is what the session's handle is
\* afterwards if the callback leaves it alone
MaxDurationCallback(h) ==
    IF ~isCancelled
    THEN FinishRecording(<<Error("MAX_DURATION")>>, "cap")
    ELSE /\ sent' = <<>>
         /\ maxDurationTimeout' = h
         /\ capGen' = IF h = "pending" THEN capGen ELSE 0
         /\ UNCHANGED <<wsState, inSessions, sttStream, isCancelled, vadTimeout,
                        streams, runs, vadOvertaken>>

\* the timer session.maxDurationTimeout refers to fires
FireMaxDuration ==
    /\ maxDurationTimeout = "pending"
    /\ MaxDurationCallback("fired")
    /\ UNCHANGED <<cancelsInRow, strayCaps>>
    /\ UNCHANGED <<registryVars, adapterVars, peerVars, sendVars>>

\* a duration-cap timer whose handle was overwritten fires
FireStrayMaxDuration ==
    /\ strayCaps > 0
    /\ strayCaps' = strayCaps - 1
    /\ MaxDurationCallback(maxDurationTimeout)
    /\ UNCHANGED cancelsInRow
    /\ UNCHANGED <<registryVars, adapterVars, peerVars, sendVars>>

\* ------------------------------------------------------ provider connection
\* A handler calls this.resolveFinish if it is set: the run that awaits the
\* promise goes on.  strs is the adapters as the handler left them.
ResolveFinish(strs, s) ==
    IF strs[s].resolveFinish
    THEN AfterFinish([strs EXCEPT ![s].resolveFinish = FALSE],
                     runs (-) One(Holder(runs, s)), s,
                     strs[s].fullTranscript, <<>>)
    ELSE /\ streams' = Reap(strs, sttStream, runs)
         /\ sent' = <<>>
         /\ UNCHANGED <<sttStream, runs>>

\* LiveTranscriptionEvents.Open
ProviderOpen(s) ==
    /\ streams[s].sock = "connecting"
    /\ streams' = [streams EXCEPT ![s].sock = "open", ![s].isOpen = TRUE]
    /\ sent' = <<>>
    /\ UNCHANGED <<wsState, inSessions, sttStream, isCancelled, vadTimeout,
                   maxDurationTimeout, capGen, strayCaps, runs, vadOvertaken,
                   cancelsInRow>>
    /\ UNCHANGED <<registryVars, adapterVars, peerVars, sendVars>>

\* an onPartial callback that forwards the transcript and leaves the silence
\* timer alone
OnPartialNoReset(text, isFinal) ==
    IF isCancelled
    THEN /\ sent' = <<>>
         /\ UNCHANGED <<vadTimeout, vadOvertaken>>
    ELSE /\ sent' = Send(<<PartialTranscript(text, isFinal)>>)
         /\ vadOvertaken' = (vadOvertaken \/ vadTimeout = "pending")
         /\ UNCHANGED vadTimeout

\* the onPartial callback handleMessage gives createStream
OnPartial(text, isFinal) ==
    IF isCancelled
    THEN /\ sent' = <<>>
         /\ UNCHANGED <<vadTimeout, vadOvertaken>>
    ELSE /\ sent' = Send(<<PartialTranscript(text, isFinal)>>)
         /\ ResetVadTimeout

\* LiveTranscriptionEvents.Transcript with a non-empty transcript
ProviderTranscript(s, seg, isFinal) ==
    /\ streams[s].sock = "open"
    /\ Len(Accumulate(streams[s].fullTranscript, seg, isFinal)) <= MaxTextLen
    /\ streams' = [streams EXCEPT
                      ![s].fullTranscript = Accumulate(@, seg, isFinal)]
    /\ OnPartial(CallbackText(streams[s].fullTranscript, seg, isFinal), isFinal)
    /\ UNCHANGED <<wsState, inSessions, sttStream, isCancelled,
                   maxDurationTimeout, capGen, strayCaps, runs, cancelsInRow>>
    /\ UNCHANGED <<registryVars, adapterVars, peerVars, sendVars>>

\* LiveTranscriptionEvents.UtteranceEnd
ProviderUtteranceEnd(s) ==
    /\ streams[s].sock = "open"
    /\ ResolveFinish(streams, s)
    /\ UNCHANGED <<wsState, inSessions, isCancelled, vadTimeout,
                   maxDurationTimeout, capGen, strayCaps, vadOvertaken, cancelsInRow>>
    /\ UNCHANGED <<registryVars, adapterVars, peerVars, sendVars>>

\* LiveTranscriptionEvents.Close: after requestClose, or unexpectedly
ProviderClose(s) ==
    /\ streams[s].sock \in {"connecting", "open"}
    /\ ResolveFinish([streams EXCEPT ![s].sock = "closed", ![s].isOpen = FALSE], s)
    /\ UNCHANGED <<wsState, inSessions, isCancelled, vadTimeout,
                   maxDurationTimeout, capGen, strayCaps, vadOvertaken, cancelsInRow>>
    /\ UNCHANGED <<registryVars, adapterVars, peerVars, sendVars>>

\* the callback of finish()'s fallback timer
FinishFallback(s) ==
    /\ streams[s].fallbacks > 0
    /\ ResolveFinish([streams EXCEPT ![s].fallbacks = @ - 1], s)
    /\ UNCHANGED <<wsState, inSessions, isCancelled, vadTimeout,
                   maxDurationTimeout, capGen, strayCaps, vadOvertaken, cancelsInRow>>
    /\ UNCHANGED <<registryVars, adapterVars, peerVars, sendVars>>

\* ------------------------------------------------------------ provider calls
\* generateLLMResponse returns a response whose summary is blank or not, or
\* throws an Error with some message
LLMOutcomes ==
    [kind : {"ok"}, blank : BOOLEAN, text : {{}}]
        \cup [kind : {"throw"}, blank : {FALSE}, text : ErrorTexts]

\* generateTTS returns audio, or throws
TTSOutcomes ==
    [kind : {"ok"}, text : {{}}] \cup [kind : {"throw"}, text : ErrorTexts]

\* finishRecording from the completion of generateLLMResponse to the next
\* await
LLMDone(o) ==
    /\ BagIn(LaterRun("llm"), runs)
    /\ IF o.kind = "throw"
       THEN /\ sent' = Send(CatchMessages(o.text))
            /\ runs' = runs (-) One(LaterRun("llm"))
       ELSE IF o.blank
       THEN \* generateTTS throws 'Empty text provided for TTS'
            /\ sent' = Send(<<LLMResponseMsg, Status("processing_tts")>>
                            \o CatchMessages({"TTS"}))
            /\ runs' = runs (-) One(LaterRun("llm"))
       ELSE /\ sent' = Send(<<LLMResponseMsg, Status("processing_tts")>>)
            /\ runs' = (runs (-) One(LaterRun("llm"))) (+) One(LaterRun("tts"))
    /\ UNCHANGED <<wsState, inSessions, sttStream, isCancelled, vadTimeout,
                   maxDurationTimeout, capGen, strayCaps, streams, vadOvertaken,
                   cancelsInRow>>
    /\ UNCHANGED <<registryVars, adapterVars, peerVars, sendVars>>

\* finishRecording from the completion of generateTTS to its end
TTSDone(o) ==
    /\ BagIn(LaterRun("tts"), runs)
    /\ sent' = Send(IF o.kind = "throw"
                    THEN CatchMessages(o.text)
                    ELSE <<TTSAudio, Status("ready_to_play")>>)
    /\ runs' = runs (-) One(LaterRun("tts"))
    /\ UNCHANGED <<wsState, inSessions, sttStream, isCancelled, vadTimeout,
                   maxDurationTimeout, capGen, strayCaps, streams, vadOvertaken,
                   cancelsInRow>>
    /\ UNCHANGED <<registryVars, adapterVars, peerVars, sendVars>>

\* -------------------------------------------------------------------- Next
Next ==
    \/ AudioChunk
    \/ StopRecording
    \/ Cancel
    \/ Malformed
    \/ WsClose
    \/ WsError
    \/ FireVad
    \/ FireMaxDuration
    \/ FireStrayMaxDuration
    \/ \E s \in StreamIds : ProviderOpen(s)
    \/ \E s \in StreamIds, seg \in Segments, isFinal \in BOOLEAN :
          ProviderTranscript(s, seg, isFinal)
    \/ \E s \in StreamIds : ProviderUtteranceEnd(s)
    \/ \E s \in StreamIds : ProviderClose(s)
    \/ \E s \in StreamIds : FinishFallback(s)
    \/ \E o \in LLMOutcomes : LLMDone(o)
    \/ \E o \in TTSOutcomes : TTSDone(o)

Spec == Init /\ [][Next]_vars

\* ------------------------------------------ index.ts: connection registry
MAX_CONNECTIONS_PER_IP == 3

\* clientIp: the first x-forwarded-for entry, or the remote address
Identities == {"ip1", "ip2"}

\* ipConnections.get(ip) || d
GetOr(ip, d) ==
    IF ip \in DOMAIN ipConnections /\ ipConnections[ip] # 0
    THEN ipConnections[ip]
    ELSE d

\* ipConnections.set(ip, n)
MapSet(ip, n) ==
    [x \in DOMAIN ipConnections \cup {ip} |->
        IF x = ip THEN n ELSE ipConnections[x]]

\* ipConnections.delete(ip)
MapDelete(ip) == [x \in DOMAIN ipConnections \ {ip} |-> ipConnections[x]]

\* A socket the server has seen: its identity, whether it was admitted (its
\* 'close' handler registered and handleConnection called), its state
\* ("open"; "closing" after ws.close() or an 'error' event; "closed" after
\* the 'close' event), whether its session is in the session map, and
\* whether an 'error' event was emitted on it.
Socket(ip, admitted) ==
    [ip |-> ip, admitted |-> admitted,
     state |-> IF admitted THEN "open" ELSE "closing",
     session |-> admitted, erred |-> FALSE]

\* a connection handler that compares with > instead of >=
ConnectionAdmitsAtLimit(ip) ==
    /\ Len(sockets) < MaxAttempts
    /\ LET currentConnections == GetOr(ip, 0)
       IN  IF currentConnections > MAX_CONNECTIONS_PER_IP
           THEN /\ sockets' = Append(sockets, Socket(ip, FALSE))
                /\ UNCHANGED ipConnections
           ELSE /\ ipConnections' = MapSet(ip, currentConnections + 1)
                /\ sockets' = Append(sockets, Socket(ip, TRUE))
    /\ UNCHANGED <<sessionVars, adapterVars, peerVars, sendVars>>

\* wss.on('connection')
Connection(ip) ==
    /\ Len(sockets) < MaxAttempts
    /\ LET currentConnections == GetOr(ip, 0)
       IN  IF currentConnections >= MAX_CONNECTIONS_PER_IP
           THEN \* ws.close(1008, ...); return
                /\ sockets' = Append(sockets, Socket(ip, FALSE))
                /\ UNCHANGED ipConnections
           ELSE /\ ipConnections' = MapSet(ip, currentConnections + 1)
                /\ sockets' = Append(sockets, Socket(ip, TRUE))
    /\ UNCHANGED <<sessionVars, adapterVars, peerVars, sendVars>>

\* the 'error' event of an admitted socket: index.ts listens to none, the
\* session's handler removes the session; 'close' follows
SocketError(c) ==
    /\ sockets[c].admitted /\ sockets[c].state = "open"
    /\ sockets' = [sockets EXCEPT ![c].state = "closing", ![c].session = FALSE,
                                  ![c].erred = TRUE]
    /\ UNCHANGED ipConnections
    /\ UNCHANGED <<sessionVars, adapterVars, peerVars, sendVars>>

\* a 'close' handler that always stores count - 1
SocketCloseKeepsEntry(c) ==
    /\ sockets[c].state # "closed"
    /\ sockets' = [sockets EXCEPT ![c].state = "closed", ![c].session = FALSE]
    /\ IF sockets[c].admitted
       THEN ipConnections' = MapSet(sockets[c].ip, GetOr(sockets[c].ip, 1) - 1)
       ELSE UNCHANGED ipConnections
    /\ UNCHANGED <<sessionVars, adapterVars, peerVars, sendVars>>

\* the 'close' event of a socket: for an admitted one, the handler of
\* index.ts and that of the session
SocketClose(c) ==
    /\ sockets[c].state # "closed"
    /\ sockets' = [sockets EXCEPT ![c].state = "closed", ![c].session = FALSE]
    /\ IF sockets[c].admitted
       THEN LET count == GetOr(sockets[c].ip, 1)
            IN  ipConnections' = IF count <= 1
                                 THEN MapDelete(sockets[c].ip)
                                 ELSE MapSet(sockets[c].ip, count - 1)
       ELSE UNCHANGED ipConnections
    /\ UNCHANGED <<sessionVars, adapterVars, peerVars, sendVars>>

RegistryNext ==
    \/ \E ip \in Identities : Connection(ip)
    \/ \E c \in DOMAIN sockets : SocketError(c)
    \/ \E c \in DOMAIN sockets : SocketClose(c)

RegistrySpec == Init /\ [][RegistryNext]_vars

\* ------------------------------------------- one adapter and its transcript
\* what data.channel.alternatives[0].transcript can be: '' (or absent), a
\* word, a blank
ReportedSegments == {<<>>, <<"a">>, <<"b">>, <<" ">>}

\* LiveTranscriptionEvents.Transcript, the whole handler.  reported is the
\* events the provider has sent so far; onPartial is the arguments of the
\* last callback.
TranscriptHandler(seg, isFinal) ==
    /\ Len(adapter.reported) < MaxReports
    /\ adapter' =
          IF seg # <<>>
          THEN [fullTranscript |->
                    Accumulate(adapter.fullTranscript, seg, isFinal),
                reported |-> Append(adapter.reported, <<seg, isFinal>>),
                onPartial |->
                    <<CallbackText(adapter.fullTranscript, seg, isFinal),
                      isFinal>>]
          ELSE [adapter EXCEPT !.reported = Append(@, <<seg, isFinal>>)]
    /\ UNCHANGED <<sessionVars, registryVars, peerVars, sendVars>>

TranscriptNext ==
    \E seg \in ReportedSegments, isFinal \in BOOLEAN :
        TranscriptHandler(seg, isFinal)

TranscriptSpec == Init /\ [][TranscriptNext]_vars

\* ------------------------------------- the sessions of several connections
\* The handlers of handleConnection are closures over the `session`, `ws`
\* and `sttProvider` of their own call; the module-level state they reach is
\* the Map `sessions` and, through index.ts, `ipConnections`.  A session is
\* followed here with its adapter and its run reduced to what the session
\* object and the socket show: whether the adapter handle is set and where
\* its finishRecording run is suspended (a finish() that resolves in the very
\* call is the run resuming at once).

\* one handler of connection i has run: its session object is p afterwards,
\* and msgs went to send() on its socket
PeerStep(i, p, msgs) ==
    /\ peers' = [peers EXCEPT ![i] = p]
    /\ peerSent' = [j \in PeerIds |->
                       IF j = i /\ peers[i].ws = "open" THEN msgs ELSE <<>>]

\* wss.on('connection') admitting the connection, and handleConnection; a
\* refused attempt gets no session
PeerConnection(i, ip) ==
    /\ peers[i].ws = "none"
    /\ GetOr(ip, 0) < MAX_CONNECTIONS_PER_IP
    /\ ipConnections' = MapSet(ip, GetOr(ip, 0) + 1)
    /\ sessions' = sessions \cup {i}
    /\ peers' = [peers EXCEPT ![i] = NewPeer(ip)]
    /\ peerSent' = [j \in PeerIds |-> IF j = i THEN <<Status("idle")>> ELSE <<>>]
    /\ UNCHANGED sockets
    /\ UNCHANGED <<sessionVars, adapterVars, sendVars>>

\* cleanupSession(session)
PeerCleanup(p) ==
    [p EXCEPT !.vadTimeout = FALSE, !.maxDurationTimeout = FALSE,
              !.sttStream = FALSE, !.isCancelled = TRUE]

\* finishRecording(session) up to its first await; a session with a run in
\* flight starts no second one here
PeerFinishRecording(i, pre) ==
    LET cleared == [peers[i] EXCEPT !.vadTimeout = FALSE,
                                    !.maxDurationTimeout = FALSE]
    IN  IF ~peers[i].sttStream
        THEN PeerStep(i, cleared, pre \o <<Status("idle")>>)
        ELSE /\ peers[i].pc = "none"
             /\ PeerStep(i, [cleared EXCEPT !.pc = "finish"],
                         pre \o <<Status("processing_stt")>>)

\* handleMessage, case 'audio_chunk'
PeerAudioChunk(i) ==
    /\ peers[i].ws = "open"
    /\ IF peers[i].isCancelled
       THEN PeerStep(i, peers[i], <<>>)
       ELSE IF ~peers[i].sttStream
       THEN PeerStep(i, [peers[i] EXCEPT !.sttStream = TRUE,
                                         !.maxDurationTimeout = TRUE,
                                         !.vadTimeout = TRUE],
                     <<Status("listening")>>)
       ELSE PeerStep(i, [peers[i] EXCEPT !.vadTimeout = TRUE], <<>>)
    /\ UNCHANGED <<sessions, registryVars>>
    /\ UNCHANGED <<sessionVars, adapterVars, sendVars>>

\* handleMessage, case 'stop_recording'
PeerStopRecording(i) ==
    /\ peers[i].ws = "open"
    /\ PeerFinishRecording(i, <<>>)
    /\ UNCHANGED <<sessions, registryVars>>
    /\ UNCHANGED <<sessionVars, adapterVars, sendVars>>

\* a cancel that cleans up every session of the Map
PeerCancelAll(i) ==
    /\ peers[i].ws = "open"
    /\ peers' = [j \in PeerIds |->
                    IF j \in sessions THEN PeerCleanup(peers[j]) ELSE peers[j]]
    /\ peerSent' = [j \in PeerIds |-> IF j = i THEN <<Status("idle")>> ELSE <<>>]
    /\ UNCHANGED <<sessions, registryVars>>
    /\ UNCHANGED <<sessionVars, adapterVars, sendVars>>

\* handleMessage, case 'cancel'
PeerCancel(i) ==
    /\ peers[i].ws = "open"
    /\ PeerStep(i, PeerCleanup(peers[i]), <<Status("idle")>>)
    /\ UNCHANGED <<sessions, registryVars>>
    /\ UNCHANGED <<sessionVars, adapterVars, sendVars>>

\* the 'close' event of the socket: the handler of index.ts, then that of
\* handleConnection
PeerClose(i) ==
    /\ peers[i].ws \in {"open", "closing"}
    /\ LET count == GetOr(peers[i].ip, 1)
       IN  ipConnections' = IF count <= 1
                            THEN MapDelete(peers[i].ip)
                            ELSE MapSet(peers[i].ip, count - 1)
    /\ sessions' = sessions \ {i}
    /\ PeerStep(i, [PeerCleanup(peers[i]) EXCEPT !.ws = "closed"], <<>>)
    /\ UNCHANGED sockets
    /\ UNCHANGED <<sessionVars, adapterVars, sendVars>>

\* the 'error' event of the socket
PeerError(i) ==
    /\ peers[i].ws \in {"open", "closing"}
    /\ sessions' = sessions \ {i}
    /\ PeerStep(i, [PeerCleanup(peers[i]) EXCEPT !.ws = "closing"], <<>>)
    /\ UNCHANGED registryVars
    /\ UNCHANGED <<sessionVars, adapterVars, sendVars>>

\* the callback of the session's silence timer
PeerFireVad(i) ==
    /\ peers[i].vadTimeout
    /\ IF ~peers[i].isCancelled /\ peers[i].sttStream
       THEN PeerFinishRecording(i, <<>>)
       ELSE PeerStep(i, [peers[i] EXCEPT !.vadTimeout = FALSE], <<>>)
    /\ UNCHANGED <<sessions, registryVars>>
    /\ UNCHANGED <<sessionVars, adapterVars, sendVars>>

\* the callback of the session's duration-cap timer
PeerFireMaxDuration(i) ==
    /\ peers[i].maxDurationTimeout
    /\ IF ~peers[i].isCancelled
       THEN PeerFinishRecording(i, <<Error("MAX_DURATION")>>)
       ELSE PeerStep(i, [peers[i] EXCEPT !.maxDurationTimeout = FALSE], <<>>)
    /\ UNCHANGED <<sessions, registryVars>>
    /\ UNCHANGED <<sessionVars, adapterVars, sendVars>>

\* the onPartial callback of an adapter of the session, while the adapter is
\* the session's or its finish() is awaited
PeerOnPartial(i, isFinal) ==
    /\ peers[i].sttStream \/ peers[i].pc = "finish"
    /\ IF peers[i].isCancelled
       THEN PeerStep(i, peers[i], <<>>)
       ELSE PeerStep(i, [peers[i] EXCEPT !.vadTimeout = TRUE],
                     <<PartialTranscript(<<"a">>, isFinal)>>)
    /\ UNCHANGED <<sessions, registryVars>>
    /\ UNCHANGED <<sessionVars, adapterVars, sendVars>>

\* the session's finishRecording run goes on from its await to the next one
\* or to its end; ok says whether the awaited call gave the run something to
\* go on with (a transcript that is not blank, a response, audio)
PeerRunResumes(i, ok) ==
    /\ peers[i].pc # "none"
    /\ CASE peers[i].pc = "finish" ->
              PeerStep(i, [peers[i] EXCEPT !.sttStream = FALSE,
                                           !.pc = IF ok THEN "llm" ELSE "none"],
                       IF ok
                       THEN <<FinalTranscript(<<"a">>), Status("processing_llm")>>
                       ELSE <<Error("INVALID_INPUT"), Status("idle")>>)
         [] peers[i].pc = "llm" ->
              PeerStep(i, [peers[i] EXCEPT !.pc = IF ok THEN "tts" ELSE "none"],
                       IF ok
                       THEN <<LLMResponseMsg, Status("processing_tts")>>
                       ELSE CatchMessages({"OpenAI"}))
         [] peers[i].pc = "tts" ->
              PeerStep(i, [peers[i] EXCEPT !.pc = "none"],
                       IF ok
                       THEN <<TTSAudio, Status("ready_to_play")>>
                       ELSE CatchMessages({"TTS"}))
    /\ UNCHANGED <<sessions, registryVars>>
    /\ UNCHANGED <<sessionVars, adapterVars, sendVars>>

\* an event of connection i
PeerEvent(i) ==
    \/ \E ip \in Identities : PeerConnection(i, ip)
    \/ PeerAudioChunk(i)
    \/ PeerStopRecording(i)
    \/ PeerCancel(i)
    \/ PeerClose(i)
    \/ PeerError(i)
    \/ PeerFireVad(i)
    \/ PeerFireMaxDuration(i)
    \/ \E isFinal \in BOOLEAN : PeerOnPartial(i, isFinal)
    \/ \E ok \in BOOLEAN : PeerRunResumes(i, ok)

IsolationNext ==
    \/ \E i \in PeerIds, ip \in Identities : PeerConnection(i, ip)
    \/ \E i \in PeerIds : PeerAudioChunk(i)
    \/ \E i \in PeerIds : PeerStopRecording(i)
    \/ \E i \in PeerIds : PeerCancel(i)
    \/ \E i \in PeerIds : PeerClose(i)
    \/ \E i \in PeerIds : PeerError(i)
    \/ \E i \in PeerIds : PeerFireVad(i)
    \/ \E i \in PeerIds : PeerFireMaxDuration(i)
    \/ \E i \in PeerIds, isFinal \in BOOLEAN : PeerOnPartial(i, isFinal)
    \/ \E i \in PeerIds, ok \in BOOLEAN : PeerRunResumes(i, ok)

IsolationSpec == Init /\ [][IsolationNext]_vars

\* ------------------------------------------- one adapter and its audio chunks
\* dgStream.sock is the provider connection ("connecting", "open" after its
\* Open event, "closed" after its Close event), connection is
\* `this.connection` being non-null, passed counts the calls of send() and
\* delivered the chunks handed to connection.send.

\* LiveTranscriptionEvents.Open; the handler stays registered after close()
DgOpen ==
    /\ dgStream.sock = "connecting"
    /\ dgStream' = [dgStream EXCEPT !.sock = "open", !.isOpen = TRUE]
    /\ UNCHANGED <<sessionVars, registryVars, adapterVars, peerVars>>

\* a send that looks at isOpen alone
DgSendChecksIsOpenOnly ==
    /\ dgStream.passed < MaxChunks
    /\ dgStream' = [dgStream EXCEPT
                       !.passed = @ + 1,
                       !.delivered = IF dgStream.isOpen THEN @ + 1 ELSE @]
    /\ UNCHANGED <<sessionVars, registryVars, adapterVars, peerVars>>

\* DeepgramStream.send, as case 'audio_chunk' calls it for every chunk
DgSend ==
    /\ dgStream.passed < MaxChunks
    /\ dgStream' = [dgStream EXCEPT
                       !.passed = @ + 1,
                       !.delivered = IF dgStream.connection /\ dgStream.isOpen
                                     THEN @ + 1
                                     ELSE @]
    /\ UNCHANGED <<sessionVars, registryVars, adapterVars, peerVars>>

\* DeepgramStream.close, called by finishRecording or cleanupSession
DgClose ==
    /\ dgStream.connection \/ dgStream.isOpen
    /\ dgStream' = [dgStream EXCEPT !.connection = FALSE, !.isOpen = FALSE]
    /\ UNCHANGED <<sessionVars, registryVars, adapterVars, peerVars>>

\* LiveTranscriptionEvents.Close: after requestClose, or unexpectedly
DgConnectionClose ==
    /\ dgStream.sock \in {"connecting", "open"}
    /\ dgStream' = [dgStream EXCEPT !.sock = "closed", !.isOpen = FALSE]
    /\ UNCHANGED <<sessionVars, registryVars, adapterVars, peerVars>>

SendNext == DgOpen \/ DgSend \/ DgClose \/ DgConnectionClose

SendSpec == Init /\ [][SendNext]_vars

\* A pending timer that nothing clears fires: setTimeout's callback runs once
\* the delay has elapsed.  Clearing a timer and arming a new one is another
\* timer, so the fairness is per timer.
FairSpec ==
    Spec /\ \A g \in {0, 1} : WF_vars(FireMaxDuration /\ capGen = g)

\* ------------------------------------------------------------ vocabulary
\* what a pipeline stage of finishRecording shows the client
PipelineOutput(m) ==
    \/ m.type \in {"final_transcript", "llm_response", "tts_audio", "error"}
    \/ /\ m.type = "status"
       /\ m.arg \in {"processing_stt", "processing_llm", "processing_tts",
                     "ready_to_play"}

Sends(msgs, m) == \E i \in DOMAIN msgs : msgs[i] = m

\* an explicit cancel has been handled: only `cancel` sets isCancelled on a
\* socket that stays open
CancelProcessed == isCancelled /\ wsState = "open"

\* a suspended finishRecording run goes on
RunStep ==
    \/ \E s \in StreamIds : ProviderUtteranceEnd(s)
    \/ \E s \in StreamIds : ProviderClose(s)
    \/ \E s \in StreamIds : FinishFallback(s)
    \/ \E o \in LLMOutcomes : LLMDone(o)
    \/ \E o \in TTSOutcomes : TTSDone(o)

\* a client message is handled
MessageStep == AudioChunk \/ StopRecording \/ Cancel \/ Malformed

\* a transcript callback runs
TranscriptStep ==
    \E s \in StreamIds, seg \in Segments, isFinal \in BOOLEAN :
        ProviderTranscript(s, seg, isFinal)

\* a duration-cap timer fires
CapFires == FireMaxDuration \/ FireStrayMaxDuration

\* the session records: it has an adapter and no finishRecording run has
\* taken it yet
Listening ==
    /\ sttStream # 0
    /\ \A x \in BagToSet(runs) : x.stream # sttStream

\* ------------------------------------------------------------------- C1
\* C1: once an explicit cancel has been processed, no pipeline stage sends
\* the client a final_transcript, llm_response, tts_audio, error or a
\* processing_stt / processing_llm / processing_tts / ready_to_play status,
\* also when a run was awaiting a provider call at the moment of the cancel.
C1_NoOutputAfterCancel ==
    [][(CancelProcessed /\ RunStep)
          => \A i \in DOMAIN sent' : ~PipelineOutput(sent'[i])]_vars

\* ------------------------------------------------------------------- C2
\* C2: a session never has two finishRecording runs in flight at once.
C2_SingleFlight == BagCardinality(runs) <= 1

\* ------------------------------------------------------------------- C3
\* C3: the handling of a client message does not begin while the handler of
\* an earlier stop_recording is still awaiting its provider call.
C3_MessagesInOrder ==
    [][MessageStep => \A x \in BagToSet(runs) : x.cause # "stop"]_vars

\* ------------------------------------------------------------------- C4
\* C4: after a cancel has been processed, the next audio_chunk begins a new
\* turn: an adapter is opened, the duration-cap timer is armed and a
\* listening status is emitted.
C4_NewTurnAfterCancel ==
    [][(CancelProcessed /\ AudioChunk)
          => /\ sttStream' # 0
             /\ maxDurationTimeout' = "pending"
             /\ Sends(sent', Status("listening"))]_vars

\* ------------------------------------------------------------------- C5
\* C5: when cancel is issued twice in a row, the second cancel sends the
\* client nothing.
C5_SecondCancelSilent ==
    [][(cancelsInRow >= 1 /\ Cancel) => sent' = <<>>]_vars

\* ------------------------------------------------------------------- C6
\* C6: a cancel handled in any state leaves the cancelled flag set, both
\* timer handles null, the adapter the session referred to closed and the
\* adapter handle null; a cancel that follows a cancel changes none of the
\* session's state, and no cancel sends an error.
C6_CancelPostState ==
    [][Cancel =>
          /\ isCancelled'
          /\ vadTimeout' = "null"
          /\ maxDurationTimeout' = "null"
          /\ sttStream' = 0
          /\ sttStream # 0 =>
                ~streams'[sttStream].conn /\ ~streams'[sttStream].isOpen
          /\ \A i \in DOMAIN sent' : sent'[i].type # "error"
          /\ cancelsInRow >= 1 =>
                UNCHANGED <<wsState, inSessions, sttStream, isCancelled,
                            vadTimeout, maxDurationTimeout, capGen, strayCaps,
                            streams, runs>>]_vars

\* two cancels in a row have been handled, the first of which closed an
\* adapter whose provider connection has not closed yet
C6_Witness ==
    /\ cancelsInRow = 2
    /\ isCancelled
    /\ runs = EmptyBag
    /\ \E s \in StreamIds : streams[s].sock = "open" /\ ~streams[s].conn

\* ------------------------------------------------------------------- C7
\* a turn is under way: the session records, or a finishRecording run that
\* can still go on has not ended
TurnUnderWay ==
    \/ sttStream # 0
    \/ \E x \in BagToSet(runs) : x.pc # "finish" \/ x.holds

\* C7: the first audio_chunk of a turn opens one adapter, emits one
\* listening status and arms the duration-cap timer; an audio_chunk that
\* arrives while the turn is under way opens no adapter, emits no listening
\* status and leaves the duration-cap timer as it is.
C7_ListeningOnce ==
    [][(AudioChunk /\ ~isCancelled) =>
          IF TurnUnderWay
          THEN /\ sttStream' = sttStream
               /\ ~Sends(sent', Status("listening"))
               /\ UNCHANGED <<maxDurationTimeout, capGen, strayCaps>>
          ELSE /\ sttStream' # 0
               /\ streams[sttStream'].sock = "free"
               /\ \A s \in StreamIds \ {sttStream'} : streams'[s] = streams[s]
               /\ sent' = <<Status("listening")>>
               /\ maxDurationTimeout' = "pending"]_vars

\* ------------------------------------------------------------------- C8
\* finishRecording as called on a recording session: pre, then
\* processing_stt, then the adapter's finish() is awaited, or, when it
\* resolves at once, the adapter is closed and the transcript accumulated so
\* far is reported (empty: INVALID_INPUT and idle)
Finalized(pre, cause) ==
    LET s == sttStream
        full == streams[s].fullTranscript
    IN  /\ vadTimeout' = "null"
        /\ maxDurationTimeout' = "null"
        /\ IF full = <<>>
           THEN /\ sent' = pre \o <<Status("processing_stt")>>
                /\ sttStream' = s
                /\ streams'[s].resolveFinish
                /\ BagIn(FinishRun(s, cause), runs')
           ELSE /\ sttStream' = 0
                /\ ~streams'[s].conn
                /\ IF IsBlank(full)
                   THEN /\ sent' = pre \o <<Status("processing_stt"),
                                            Error("INVALID_INPUT"),
                                            Status("idle")>>
                        /\ runs' = runs
                   ELSE /\ sent' = pre \o <<Status("processing_stt"),
                                            FinalTranscript(full),
                                            Status("processing_llm")>>
                        /\ runs' = runs (+) One(LaterRun("llm"))

\* C8: when a duration-cap timer fires while the session records and is not
\* cancelled, the client is sent an error MAX_DURATION first, and the
\* recording then goes through the finalization an explicit stop gives it,
\* so the notice precedes the final_transcript of the turn.
C8_CapFinalizes ==
    [][/\ (CapFires /\ Listening /\ ~isCancelled) =>
              Finalized(<<Error("MAX_DURATION")>>, "cap")
       /\ (StopRecording /\ Listening) => Finalized(<<>>, "stop")]_vars

\* the cap has fired on a recording with a transcript: the notice, then the
\* final transcript
C8_Witness ==
    sent = <<Error("MAX_DURATION"), Status("processing_stt"),
             FinalTranscript(<<"a">>), Status("processing_llm")>>

\* ------------------------------------------------------------------- C9
\* C9: audio chunks and transcript updates that arrive while the session
\* records leave the pending duration-cap timer alone, and every session
\* that records eventually stops recording, whatever the client sends.
\* (A recording with MaxRuns runs suspended is left out: the model lets no
\* further run start there.)
C9_ListeningEnds ==
    /\ [][(Listening /\ (AudioChunk \/ TranscriptStep)) =>
             /\ maxDurationTimeout = "pending"
             /\ UNCHANGED <<maxDurationTimeout, capGen>>]_vars
    /\ (Listening /\ BagCardinality(runs) < MaxRuns) ~> ~Listening

\* the cap has fired on a recording without a transcript: the run it started
\* awaits finish()
C9_Witness ==
    /\ sent = <<Error("MAX_DURATION"), Status("processing_stt")>>
    /\ ~Listening
    /\ \E x \in BagToSet(runs) : x.cause = "cap" /\ x.stream = sttStream

\* ------------------------------------------------------------------ C10
\* C10: while the session records, every audio chunk and every transcript
\* update leaves a silence timer pending that was armed by that very event;
\* a silence timer is pending as long as the session records; and a silence
\* timer that fires while the session records was armed by the last chunk or
\* update, and starts finalization.
C10_SilenceTimer ==
    [][/\ (Listening /\ (AudioChunk \/ TranscriptStep)) =>
              vadTimeout' = "pending" /\ ~vadOvertaken'
       /\ (Listening /\ FireVad) =>
              /\ ~vadOvertaken
              /\ ~Listening'
              /\ sent'[1] = Status("processing_stt")
       /\ Listening' => vadTimeout' = "pending"]_vars

\* a transcript update has been handled while the session records
C10_Witness ==
    /\ Listening
    /\ vadTimeout = "pending"
    /\ \E i \in DOMAIN sent : sent[i].type = "partial_transcript"

\* ------------------------------------------------------------------ C11
\* the await of finish() on adapter s ends in this step: finish() resolves
\* at once for a call made in this step, or a provider event or the fallback
\* timer resolves the pending call
FinishResolves(s) ==
    \/ /\ sttStream = s
       /\ streams[s].fullTranscript # <<>>
       /\ StopRecording \/ (FireVad /\ ~isCancelled) \/ (CapFires /\ ~isCancelled)
    \/ /\ streams[s].resolveFinish
       /\ ProviderUtteranceEnd(s) \/ ProviderClose(s) \/ FinishFallback(s)

\* how many runs await the response or the synthesis call
LaterRuns(rs) == CopiesIn(LaterRun("llm"), rs) + CopiesIn(LaterRun("tts"), rs)

\* C11: when finish() resolves with an empty or whitespace-only transcript,
\* the run sends no final_transcript, starts neither the response nor the
\* synthesis call, and the last two messages it sends are the error
\* INVALID_INPUT and status idle.
C11_BlankTranscript ==
    [][\A s \in StreamIds :
          (FinishResolves(s) /\ IsBlank(streams[s].fullTranscript)
              /\ wsState = "open") =>
             /\ \A i \in DOMAIN sent' : sent'[i].type # "final_transcript"
             /\ LaterRuns(runs') = LaterRuns(runs)
             /\ Len(sent') >= 2
             /\ SubSeq(sent', Len(sent') - 1, Len(sent')) =
                   <<Error("INVALID_INPUT"), Status("idle")>>]_vars

\* the provider has reported the final segment " ", and a stop has been
\* answered with the rejection of the whitespace-only transcript
C11_Witness ==
    /\ sent = <<Status("processing_stt"), Error("INVALID_INPUT"), Status("idle")>>
    /\ sttStream = 0

\* ------------------------------------------------------------------ C12
\* the segments of the reports that are final and not empty, in order
RECURSIVE FinalSegments(_)
FinalSegments(reports) ==
    IF reports = <<>> THEN <<>>
    ELSE IF reports[1][2] /\ reports[1][1] # <<>>
    THEN <<reports[1][1]>> \o FinalSegments(Tail(reports))
    ELSE FinalSegments(Tail(reports))

\* segments joined by one space
RECURSIVE JoinBySpace(_)
JoinBySpace(segs) ==
    IF segs = <<>> THEN <<>>
    ELSE IF Len(segs) = 1 THEN segs[1]
    ELSE segs[1] \o <<" ">> \o JoinBySpace(Tail(segs))

\* C12: after any reports, the accumulated transcript is the non-empty final
\* segments in the order reported, joined by one space, with no separator
\* before the first or after the last; a report never changes what was
\* accumulated before it, and a partial report changes nothing.
C12_Accumulation ==
    /\ [](adapter.fullTranscript = JoinBySpace(FinalSegments(adapter.reported)))
    /\ [][/\ SubSeq(adapter'.fullTranscript, 1, Len(adapter.fullTranscript))
               = adapter.fullTranscript
          /\ (Len(adapter'.reported) > Len(adapter.reported)
                 /\ ~adapter'.reported[Len(adapter'.reported)][2])
                => adapter'.fullTranscript = adapter.fullTranscript]_vars

\* "a" and "b" were reported final, with an empty final report and a partial
\* report among the reports
C12_Witness ==
    /\ adapter.fullTranscript = <<"a", " ", "b">>
    /\ Len(adapter.reported) = 4
    /\ \E i \in 1..4 : adapter.reported[i] = <<<<>>, TRUE>>
    /\ \E i \in 1..4 : ~adapter.reported[i][2]

\* ------------------------------------------------------------------ C13
\* C13: every finish() call that has not resolved yet is one the adapter
\* still resolves: the adapter's resolveFinish is the resolve function of
\* its promise, which utterance-end, close or the fallback timer calls.  (A
\* call whose resolve function the adapter has lost is resolved by nothing:
\* the run that awaits it waits forever.)
C13_FinishResolves ==
    \A x \in BagToSet(runs) : x.pc = "finish" => x.holds

\* ------------------------------------------------------------------ C14
\* C14: when the provider connection of an adapter closes, every finish()
\* call pending on that adapter resolves: no run awaits finish() on it
\* afterwards.
C14_CloseResolvesFinish ==
    [][\A s \in StreamIds :
          ProviderClose(s) =>
             \A x \in BagToSet(runs') : ~(x.pc = "finish" /\ x.stream = s)]_vars

\* ------------------------------------------------------------------ C15
\* the admitted sockets of an identity whose 'close' event has not come
Held(ip) ==
    {c \in DOMAIN sockets :
        sockets[c].ip = ip /\ sockets[c].admitted /\ sockets[c].state # "closed"}

\* C15: a connection attempt is refused (closed by the server, not admitted,
\* no session) exactly when its identity holds 3 admitted connections that
\* have not closed, whatever the other identities hold; otherwise it is
\* admitted and gets a session.
C15_Admission ==
    [][\A ip \in Identities :
          Connection(ip) =>
             LET new == sockets'[Len(sockets')]
             IN  /\ new.ip = ip
                 /\ new.admitted <=> Cardinality(Held(ip)) < MAX_CONNECTIONS_PER_IP
                 /\ new.admitted => new.state = "open" /\ new.session
                 /\ ~new.admitted => new.state = "closing" /\ ~new.session]_vars

\* a fourth attempt of ip1 was refused, one of its three connections closed,
\* and the attempt after that was admitted
C15_Witness ==
    /\ Len(sockets) = 5
    /\ sockets[4].ip = "ip1" /\ ~sockets[4].admitted
    /\ sockets[5].ip = "ip1" /\ sockets[5].admitted
    /\ Cardinality(Held("ip1")) = MAX_CONNECTIONS_PER_IP

\* ------------------------------------------------------------------ C16
\* the registry count of an identity
Count(ip) == IF ip \in DOMAIN ipConnections THEN ipConnections[ip] ELSE 0

\* C16: the count of every identity is the number of its admitted
\* connections that have not closed, between 0 and 3, and an identity with
\* count 0 has no entry; the close of an admitted connection takes 1 from
\* its identity's count, whether an error came first or not; a refused
\* attempt, its close and an error change no count.
C16_RegistryCount ==
    /\ [](\A ip \in Identities :
             /\ Count(ip) = Cardinality(Held(ip))
             /\ Count(ip) <= MAX_CONNECTIONS_PER_IP
             /\ ip \in DOMAIN ipConnections => ipConnections[ip] >= 1)
    /\ [][/\ \A c \in DOMAIN sockets :
                SocketClose(c) =>
                   \A ip \in Identities :
                      Count(ip)' =
                         IF sockets[c].admitted /\ sockets[c].ip = ip
                         THEN Count(ip) - 1
                         ELSE Count(ip)
          /\ (\E c \in DOMAIN sockets : SocketError(c))
                => UNCHANGED ipConnections
          /\ \A ip \in Identities :
                (Connection(ip) /\ ~sockets'[Len(sockets')].admitted)
                   => UNCHANGED ipConnections]_vars

\* an admitted connection has closed after an error and left its identity
\* without an entry, and an attempt has been refused
C16_Witness ==
    /\ \E c \in DOMAIN sockets :
          /\ sockets[c].admitted /\ sockets[c].erred
          /\ sockets[c].state = "closed"
          /\ sockets[c].ip \notin DOMAIN ipConnections
    /\ \E c \in DOMAIN sockets : ~sockets[c].admitted

\* ------------------------------------------------------------------ C17
\* C17: once the session is torn down (cancel, close or error: isCancelled
\* is set), no silence timer and no duration-cap timer of the session is
\* pending, an audio chunk or transcript callback arms none, and a timer
\* callback starts no finishRecording run and sends nothing.
C17_NoTimerAfterTeardown ==
    /\ [](isCancelled =>
             /\ vadTimeout # "pending"
             /\ maxDurationTimeout # "pending"
             /\ strayCaps = 0)
    /\ [][(isCancelled /\ (AudioChunk \/ TranscriptStep)) =>
             vadTimeout' # "pending" /\ maxDurationTimeout' # "pending"]_vars
    /\ [][(isCancelled /\ (FireVad \/ CapFires)) =>
             sent' = <<>> /\ runs' = runs]_vars

\* ------------------------------------------------------------------ C18
\* C18: a run whose response call throws sends the one error LLM_ERROR, and
\* a run whose synthesis call throws sends the one error TTS_ERROR, whatever
\* the message of the error thrown.  (finish() has no way to fail.)
C18_ClassifiedByStage ==
    [][/\ \A o \in LLMOutcomes :
             (LLMDone(o) /\ o.kind = "throw" /\ wsState = "open") =>
                sent' = <<Error("LLM_ERROR"), Status("idle")>>
       /\ \A o \in TTSOutcomes :
             (TTSDone(o) /\ o.kind = "throw" /\ wsState = "open") =>
                sent' = <<Error("TTS_ERROR"), Status("idle")>>]_vars

\* ------------------------------------------------------------------ C19
\* a provider call of a run fails in this step: the response call throws,
\* or the synthesis call throws (at once on a blank summary, or later)
ProviderFailure ==
    \/ \E o \in LLMOutcomes : LLMDone(o) /\ (o.kind = "throw" \/ o.blank)
    \/ \E o \in TTSOutcomes : TTSDone(o) /\ o.kind = "throw"

ProviderErrorCodes == {"STT_ERROR", "LLM_ERROR", "TTS_ERROR", "CONNECTION_ERROR"}

\* the last step reported a provider failure
FailureReported ==
    /\ Len(sent) >= 2
    /\ sent[Len(sent)] = Status("idle")
    /\ sent[Len(sent) - 1].type = "error"
    /\ sent[Len(sent) - 1].arg \in ProviderErrorCodes

\* C19: a run whose provider call fails sends exactly one error and then
\* status idle, ends without starting a later stage, and leaves the socket
\* and the cancelled flag as they are; the audio_chunk that follows the
\* failure opens a new adapter and emits listening.
C19_FailureRecovery ==
    [][/\ (ProviderFailure /\ wsState = "open") =>
             /\ FailureReported'
             /\ Cardinality({i \in DOMAIN sent' : sent'[i].type = "error"}) = 1
             /\ BagCardinality(runs') = BagCardinality(runs) - 1
             /\ LaterRuns(runs') = LaterRuns(runs) - 1
             /\ UNCHANGED <<wsState, inSessions, isCancelled>>
       /\ (FailureReported /\ AudioChunk) =>
             /\ sttStream' # 0
             /\ sttStream' # sttStream
             /\ sent' = <<Status("listening")>>]_vars

\* ------------------------------------------------------------------ C20
\* C20: a payload that JSON.parse rejects is answered with exactly one
\* message, an error with code INVALID_INPUT or CONNECTION_ERROR; the socket
\* stays open, and the adapter handle, the adapters, both timers, the
\* cancelled flag and the suspended runs are as before.
C20_MalformedPayload ==
    [][Malformed =>
          /\ Len(sent') = 1
          /\ sent'[1].type = "error"
          /\ sent'[1].arg \in {"INVALID_INPUT", "CONNECTION_ERROR"}
          /\ wsState' = "open"
          /\ UNCHANGED <<inSessions, sttStream, isCancelled, vadTimeout,
                         maxDurationTimeout, capGen, strayCaps, streams,
                         runs>>]_vars

\* a malformed payload has been answered while the session records and an
\* earlier run is still in flight
C20_Witness ==
    /\ sent = <<Error("INVALID_INPUT")>>
    /\ sttStream # 0
    /\ vadTimeout = "pending" /\ maxDurationTimeout = "pending"
    /\ runs # EmptyBag

\* ------------------------------------------------------------------ C21
\* C21: the 'close' and the 'error' event of the socket, in any state, leave
\* both timer handles null, the adapter the session referred to closed (it
\* was not closed before) and the adapter handle null, the cancelled flag set
\* and the session out of the session map, and send nothing; when the
\* teardown has run before (an error or a cancel came first), the event
\* changes no timer, no adapter, no run and no flag.
C21_Teardown ==
    [][(WsClose \/ WsError) =>
          /\ vadTimeout' = "null"
          /\ maxDurationTimeout' = "null"
          /\ sttStream' = 0
          /\ sttStream # 0 =>
                /\ streams[sttStream].conn
                /\ ~streams'[sttStream].conn /\ ~streams'[sttStream].isOpen
          /\ isCancelled'
          /\ ~inSessions'
          /\ sent' = <<>>
          /\ isCancelled =>
                UNCHANGED <<sttStream, isCancelled, vadTimeout,
                            maxDurationTimeout, capGen, strayCaps, streams,
                            runs>>
          /\ wsState = "closing" => UNCHANGED inSessions]_vars

\* the socket has closed after a cancel that closed an adapter whose provider
\* connection has not closed yet, with a run still in flight
C21_Witness ==
    /\ wsState = "closed"
    /\ cancelsInRow >= 1
    /\ isCancelled /\ ~inSessions
    /\ runs # EmptyBag
    /\ \E s \in StreamIds : streams[s].sock = "open" /\ ~streams[s].conn

\* ------------------------------------------------------------------ C22
\* C22: whenever the session does not record (a finishRecording run has
\* taken its adapter, or it has none), no silence timer and no duration-cap
\* timer of the session is pending.
C22_TimersOnlyWhileListening ==
    ~Listening =>
        /\ vadTimeout # "pending"
        /\ maxDurationTimeout # "pending"
        /\ strayCaps = 0

\* ------------------------------------------------------------------ C23
\* C23: a silence timer that fires while the session does not record (a
\* finishRecording run has taken its adapter, or it has none) or after a
\* cancel starts no finishRecording run, sends nothing and leaves the
\* adapters and the adapter handle as they are.
C23_VadOnlyWhileListening ==
    [][(FireVad /\ (~Listening \/ isCancelled)) =>
          /\ sent' = <<>>
          /\ UNCHANGED <<runs, sttStream, streams>>]_vars

\* ------------------------------------------------------------------ C24
\* the place of a status in the order of a turn
StatusRank(s) ==
    CASE s = "listening" -> 1
      [] s = "processing_stt" -> 2
      [] s = "processing_llm" -> 3
      [] s = "processing_tts" -> 4
      [] s = "ready_to_play" -> 5
      [] OTHER -> 6

IsStatus(m) == m.type = "status"

\* C24: the statuses a step sends are in the order listening,
\* processing_stt, processing_llm, processing_tts, ready_to_play, each once
\* and before the output of its stage; and while a turn is under way an audio
\* chunk, a transcript update, and a stop or a timer firing that comes after
\* finalization has started send no status.
C24_StatusOncePerStage ==
    [][/\ \A i, j \in DOMAIN sent' :
             (i < j /\ IsStatus(sent'[i]) /\ IsStatus(sent'[j])) =>
                StatusRank(sent'[i].arg) < StatusRank(sent'[j].arg)
       /\ \A i, j \in DOMAIN sent' :
             /\ (sent'[i] = Status("processing_stt")
                    /\ sent'[j].type = "final_transcript") => i < j
             /\ (sent'[i] = Status("ready_to_play")
                    /\ sent'[j].type = "tts_audio") => j < i
       /\ ((AudioChunk /\ TurnUnderWay) \/ TranscriptStep) =>
             \A i \in DOMAIN sent' : ~IsStatus(sent'[i])
       /\ ((StopRecording \/ FireVad \/ CapFires) /\ TurnUnderWay /\ ~Listening) =>
             \A i \in DOMAIN sent' : ~IsStatus(sent'[i])]_vars

\* ------------------------------------------------------------------ C25
\* the adapters close() has not been called on
Unclosed == {s \in StreamIds : streams[s].conn}

\* C25: whenever the session's adapter handle is cleared or replaced, the
\* adapter it referred to has been closed; at most one adapter of the
\* session is unclosed at any time; and every unclosed adapter is one the
\* session's handle or a suspended run refers to, so that it is closed later.
C25_NoAdapterLost ==
    /\ [][(sttStream # 0 /\ sttStream' # sttStream) =>
             ~streams'[sttStream].conn]_vars
    /\ [](Cardinality(Unclosed) <= 1)
    /\ [](\A s \in Unclosed :
             sttStream = s \/ \E x \in BagToSet(runs) : x.stream = s)

\* ------------------------------------------------------------------ C26
\* C26: no timer of the session is pending that its handle does not refer
\* to: with the one timer a handle can refer to, the session has at most one
\* pending silence timer and at most one pending duration-cap timer.  (The
\* silence timer's handle is assigned in resetVadTimeout alone, after
\* clearTimeout; the duration-cap timer's in case 'audio_chunk'.)
C26_OneTimerEach == strayCaps = 0

\* ------------------------------------------------------------------ C27
\* C27: once a cancel or a close of the connection has been processed
\* (isCancelled is set), a run that resumes from its provider call starts no
\* further provider call: a run that resumes from finish() does not go on to
\* the response call, and a run that resumes from the response call does not
\* go on to the synthesis call.
C27_CancelCheckedAtStages ==
    [][(isCancelled /\ RunStep) =>
          /\ CopiesIn(LaterRun("llm"), runs') <= CopiesIn(LaterRun("llm"), runs)
          /\ CopiesIn(LaterRun("tts"), runs') <= CopiesIn(LaterRun("tts"), runs)]_vars

\* ------------------------------------------------------------------ C28
\* C28: the await of a finish() call ends only in a step in which the
\* provider signals utterance-end, the provider connection closes or the
\* fallback timer fires: never in the step that makes the call.
C28_FinishWaitsForProvider ==
    [][\A s \in StreamIds :
          FinishResolves(s) =>
             ProviderUtteranceEnd(s) \/ ProviderClose(s) \/ FinishFallback(s)]_vars

\* ------------------------------------------------------------------ C29
\* C29: for a partial segment the adapter calls onPartial with the
\* accumulated transcript, one space and the segment, and leaves the
\* accumulated transcript as it was; for a final segment it calls onPartial
\* with the accumulated transcript as it is after the segment was appended.
C29_CallbackText ==
    [][\A seg \in ReportedSegments \ {<<>>}, isFinal \in BOOLEAN :
          TranscriptHandler(seg, isFinal) =>
             IF isFinal
             THEN /\ adapter'.onPartial = <<adapter'.fullTranscript, TRUE>>
                  /\ Len(adapter'.fullTranscript) > Len(adapter.fullTranscript)
             ELSE /\ adapter'.onPartial =
                        <<adapter.fullTranscript \o <<" ">> \o seg, FALSE>>
                  /\ adapter'.fullTranscript = adapter.fullTranscript]_vars

\* the partial segment "b" was reported after the final segment "a"
C29_Witness ==
    /\ adapter.fullTranscript = <<"a">>
    /\ adapter.onPartial = <<<<"a", " ", "b">>, FALSE>>

\* ------------------------------------------------------------------ C30
\* C30: an event of one connection (its admission, a client message, a timer
\* firing, a transcript callback, the resumption of its run, its close or
\* error) leaves the session object of every other connection as it is
\* (adapter handle, timers, cancelled flag, run) and sends nothing on another
\* connection's socket; of the state the sessions have in common it changes
\* the connection count of its own identity alone and, in the session map,
\* its own entry alone.
C30_SessionsIsolated ==
    [][\A i \in PeerIds :
          PeerEvent(i) =>
             /\ \A j \in PeerIds \ {i} :
                   /\ peers'[j] = peers[j]
                   /\ peerSent'[j] = <<>>
                   /\ j \in sessions' <=> j \in sessions
             /\ \A ip \in Identities \ {peers'[i].ip} : Count(ip)' = Count(ip)]_vars

\* two connections of one identity: the first was cancelled and has closed,
\* the second records with both timers pending and is in the session map
C30_Witness ==
    /\ peers[1].ws = "closed" /\ peers[1].isCancelled
    /\ peers[2].ws = "open" /\ ~peers[2].isCancelled
    /\ peers[2].sttStream /\ peers[2].vadTimeout /\ peers[2].maxDurationTimeout
    /\ peers[1].ip = peers[2].ip
    /\ Count(peers[2].ip) = 1
    /\ sessions = {2}

\* ------------------------------------------------------------------ C31
\* C31: once the socket is not open any more (an 'error' or the 'close'
\* event has come), no step sends the client a message: what a resuming
\* finishRecording run, a transcript callback or a timer callback hands to
\* send is dropped, also for a run that was in flight when the socket closed.
C31_NoSendAfterClose ==
    /\ [](wsState # "open" => sent = <<>>)
    /\ [][(wsState # "open" /\ (RunStep \/ TranscriptStep \/ FireVad \/ CapFires))
             => sent' = <<>>]_vars

\* the socket has closed with two runs in flight, one awaiting finish() and
\* one awaiting the synthesis call
C31_Witness ==
    /\ wsState = "closed"
    /\ BagIn(LaterRun("tts"), runs)
    /\ \E x \in BagToSet(runs) : x.pc = "finish" /\ x.holds

\* ------------------------------------------------------------------ C32
\* C32: a Transcript event of an adapter on which close() has been called
\* sends the client nothing and leaves the session's silence timer as it is.
C32_LateTranscriptInert ==
    [][\A s \in StreamIds, seg \in Segments, isFinal \in BOOLEAN :
          (ProviderTranscript(s, seg, isFinal) /\ ~streams[s].conn) =>
             /\ sent' = <<>>
             /\ UNCHANGED vadTimeout]_vars

\* ------------------------------------------------------------------ C33
\* C33: a chunk passed to send() is handed to the provider connection in
\* that very call exactly when the connection's Open event has come, its
\* Close event has not, and close() has not been called; otherwise it is
\* dropped.  No other step hands a chunk on, so no chunk is kept for later.
\* (send() has no statement that throws but the call of connection.send,
\* which is the provider library's.)
C33_SendOnlyWhileOpen ==
    /\ [][DgSend =>
             dgStream'.delivered =
                dgStream.delivered
                   + (IF dgStream.sock = "open" /\ dgStream.connection
                      THEN 1 ELSE 0)]_vars
    /\ [][dgStream'.delivered # dgStream.delivered =>
             dgStream'.passed = dgStream.passed + 1]_vars
    /\ [](dgStream.delivered <= dgStream.passed)

\* five chunks were passed, some of them before the Open event or after
\* close(); close() has been called and the Close event has not come yet:
\* only the two chunks passed to the open connection were handed on
C33_Witness ==
    /\ dgStream.passed = 5
    /\ dgStream.delivered = 2
    /\ dgStream.sock = "open"
    /\ ~dgStream.connection

====
